---- MODULE Spec2Model ----
(***************************************************************************)
(* Model of the technical-writing assistant: the prompt sanitiser and the  *)
(* completion retry loop (ai_prompt.py), the line classifier, the pooled   *)
(* document assembly and the serialiser (function.py) and the save         *)
(* callback of the orchestration layer (main.py).                          *)
(*                                                                         *)
(* Python strings are modelled as sequences of one-character strings, so   *)
(* that strip/split/join/slice/startswith/`in`/lstrip/replace are computed *)
(* character by character as the interpreter computes them.                *)
(***************************************************************************)
EXTENDS Integers, Sequences, FiniteSets, TLC

VARIABLES
    \* ---- AIPrompt.sanitize_input (pure function under test)
    s_text, s_max, s_once, s_twice, s_pc,
    \* ---- AIPrompt.get_ai_response
    max_retries, attempt, calls, rpc, rresult, raised,
    \* ---- DocumentProcessor.parse_content (pure function under test)
    p_content, p_sections, p_pc,
    \* ---- DocumentProcessor.save_document / TechnicalWritingAssistant.save_document
    file_path, doc_given, svpc, fs, converted, sv_raised, dialogs,
    \* ---- DocumentProcessor.format_document / add_content and the pool workers
    d_content, d_sections, d_body, d_footer, fpc, d_submitted, d_task, d_wait, d_exc,
    d_failed,
    \* ---- AIPrompt.generate_prompt / fetch_serper_results
    g_content, g_params, g_resp, g_out, g_queries,
    \* ---- TechnicalWritingAssistant start-up, the form's handlers and the generate threads
    env_groq, env_serper, apc, ui_built, startup_error, generated_doc, gens, last_view

sanVars   == <<s_text, s_max, s_once, s_twice, s_pc>>
retryVars == <<max_retries, attempt, calls, rpc, rresult, raised>>
parseVars == <<p_content, p_sections, p_pc>>
saveVars  == <<file_path, doc_given, svpc, fs, converted, sv_raised, dialogs>>
docVars   == <<d_content, d_sections, d_body, d_footer, fpc, d_submitted, d_task, d_wait,
               d_exc, d_failed>>
promptVars == <<g_content, g_params, g_resp, g_out, g_queries>>
appVars   == <<env_groq, env_serper, apc, ui_built, startup_error, generated_doc, gens,
               last_view>>
vars      == <<sanVars, retryVars, parseVars, saveVars, docVars, promptVars, appVars>>

\* what an action of one component leaves alone: the other components
restSan   == <<retryVars, parseVars, saveVars, docVars, promptVars, appVars>>
restRetry == <<sanVars, parseVars, saveVars, docVars, promptVars, appVars>>
restParse == <<sanVars, retryVars, saveVars, docVars, promptVars, appVars>>
restSave  == <<sanVars, retryVars, parseVars, docVars, promptVars, appVars>>
restDoc   == <<sanVars, retryVars, parseVars, saveVars, promptVars, appVars>>
restPrompt == <<sanVars, retryVars, parseVars, saveVars, docVars, appVars>>
restApp   == <<sanVars, retryVars, parseVars, saveVars, docVars, promptVars>>

(***************************************************************************)
(* Bounds of the model.                                                    *)
(***************************************************************************)
MaxLen       == 4   \* longest text handed to sanitize_input
MaxM         == 3   \* largest max_length handed to sanitize_input
MaxRetries   == 4   \* largest max_retries handed to get_ai_response
MaxLines     == 2   \* most lines of a text handed to parse_content
MaxDocLines  == 2   \* most lines of a response handed to format_document
MaxResults   == 4   \* most organic entries of a search answer
MaxActions   == 2   \* most Generate / New Document clicks of a session

(***************************************************************************)
(* Python str primitives on character sequences.                           *)
(***************************************************************************)
Whitespace == {" ", "\t", "\n"}

StartsWith(s, p) == Len(s) >= Len(p) /\ SubSeq(s, 1, Len(p)) = p

\* Python `p in s`
Contains(s, p) == \E i \in 1..(Len(s) - Len(p) + 1) : SubSeq(s, i, i + Len(p) - 1) = p

\* Python s[:m] for m >= 0
Take(s, m) == SubSeq(s, 1, IF m < Len(s) THEN m ELSE Len(s))

Drop(s, k) == SubSeq(s, k + 1, Len(s))

RECURSIVE LStripChars(_, _)
\* Python s.lstrip(chars): drops every leading character that is in the SET chars
LStripChars(s, cs) ==
    IF s # <<>> /\ s[1] \in cs THEN LStripChars(Drop(s, 1), cs) ELSE s

RECURSIVE RStripChars(_, _)
RStripChars(s, cs) ==
    IF s # <<>> /\ s[Len(s)] \in cs THEN RStripChars(SubSeq(s, 1, Len(s) - 1), cs) ELSE s

\* Python s.strip()
Strip(s) == RStripChars(LStripChars(s, Whitespace), Whitespace)

RECURSIVE SplitOn(_, _)
\* Python s.split(c) for a one-character separator: empty fields are kept
SplitOn(s, c) ==
    IF \A i \in 1..Len(s) : s[i] # c THEN <<s>>
    ELSE LET i == CHOOSE k \in 1..Len(s) : s[k] = c /\ \A j \in 1..(k - 1) : s[j] # c
         IN  <<SubSeq(s, 1, i - 1)>> \o SplitOn(Drop(s, i), c)

RECURSIVE SplitWs(_)
\* Python s.split(): fields separated by runs of whitespace, no empty field
SplitWs(s) ==
    LET t == LStripChars(s, Whitespace) IN
    IF t = <<>> THEN <<>>
    ELSE LET n == IF \E k \in 1..Len(t) : t[k] \in Whitespace
                  THEN (CHOOSE k \in 1..Len(t) :
                            t[k] \in Whitespace /\ \A j \in 1..(k - 1) : t[j] \notin Whitespace) - 1
                  ELSE Len(t)
         IN  <<SubSeq(t, 1, n)>> \o SplitWs(Drop(t, n))

RECURSIVE Join(_, _)
\* Python sep.join(parts)
Join(parts, sep) ==
    IF parts = <<>> THEN <<>>
    ELSE IF Len(parts) = 1 THEN parts[1]
    ELSE parts[1] \o sep \o Join(Drop(parts, 1), sep)

RECURSIVE SeqsUpTo(_, _)
\* every sequence over S of length 0..n
SeqsUpTo(S, n) ==
    IF n = 0 THEN {<<>>}
    ELSE LET shorter == SeqsUpTo(S, n - 1)
         IN  shorter \cup {Append(q, x) : q \in {r \in shorter : Len(r) = n - 1}, x \in S}

(***************************************************************************)
(* AIPrompt.sanitize_input                                                 *)
(***************************************************************************)
SanAlphabet == {" ", "\n", "a", "b"}

\* ' '.join(text.strip().split())[:max_length]
sanitize_input(text, max_length) ==
    Take(Join(SplitWs(Strip(text)), <<" ">>), max_length)

SanInit ==
    /\ s_text \in SeqsUpTo(SanAlphabet, MaxLen)
    /\ s_max \in 0..MaxM
    /\ s_once = <<>>
    /\ s_twice = <<>>
    /\ s_pc = "input"

SanitizeOnce ==
    /\ s_pc = "input"
    /\ s_once' = sanitize_input(s_text, s_max)
    /\ s_pc' = "once"
    /\ UNCHANGED <<restSan, s_text, s_max, s_twice>>

SanitizeTwice ==
    /\ s_pc = "once"
    /\ s_twice' = sanitize_input(s_once, s_max)
    /\ s_pc' = "twice"
    /\ UNCHANGED <<restSan, s_text, s_max, s_once>>

SanNext == SanitizeOnce \/ SanitizeTwice

(***************************************************************************)
(* AIPrompt.get_ai_response                                                *)
(***************************************************************************)
RetryableClasses  == {"ValueError", "TypeError"}
UnexpectedClasses == {"APIConnectionError"}
Responses         == {"", "report"}
NoError           == [kind |-> "none", call |-> 0]

\* the mutant retries on every exception class
retryable_any(cls) == TRUE

\* except (ValueError, TypeError)
retryable(cls) == cls \in RetryableClasses

\* the mutant compares with the ceiling itself
is_last_attempt_off_by_one(a, n) == a = n

\* if attempt == max_retries - 1
is_last_attempt(a, n) == a = n - 1

RetryInit ==
    /\ max_retries \in 0..MaxRetries
    /\ attempt = 0
    /\ calls = <<>>
    /\ rpc = "loop"
    /\ rresult = "None"
    /\ raised = NoError

\* the completion endpoint answers: the first choice's content is returned
CallReturns(r) ==
    /\ rpc = "loop"
    /\ attempt < max_retries
    /\ calls' = Append(calls, [kind |-> "ok", call |-> Len(calls) + 1])
    /\ rresult' = r
    /\ rpc' = "returned"
    /\ UNCHANGED <<restRetry, max_retries, attempt, raised>>

\* the completion endpoint raises an exception of class cls
CallRaises(cls) ==
    /\ rpc = "loop"
    /\ attempt < max_retries
    /\ LET e == [kind |-> cls, call |-> Len(calls) + 1] IN
       /\ calls' = Append(calls, e)
       /\ IF retryable(cls)
          THEN IF is_last_attempt(attempt, max_retries)
               THEN rpc' = "raised" /\ raised' = e /\ attempt' = attempt
               ELSE rpc' = "loop" /\ raised' = raised /\ attempt' = attempt + 1
          ELSE rpc' = "raised" /\ raised' = e /\ attempt' = attempt
    /\ UNCHANGED <<restRetry, max_retries, rresult>>

\* range(max_retries) is exhausted: the function falls off its end
LoopExhausted ==
    /\ rpc = "loop"
    /\ attempt >= max_retries
    /\ rpc' = "returned"
    /\ rresult' = "None"
    /\ UNCHANGED <<restRetry, max_retries, attempt, calls, raised>>

RetryNext ==
    \/ \E r \in Responses : CallReturns(r)
    \/ \E cls \in RetryableClasses \cup UnexpectedClasses : CallRaises(cls)
    \/ LoopExhausted

(***************************************************************************)
(* DocumentProcessor.parse_content                                         *)
(***************************************************************************)
H1Marker == <<"#", " ">>
H2Marker == <<"#", "#", " ">>
H3Marker == <<"#", "#", "#", " ">>
ChartTag == <<"[", "C", "H", "A", "R", "T", "]">>
TableTag == <<"[", "T", "A", "B", "L", "E", "]">>
ImageTag == <<"[", "I", "M", "A", "G", "E", "]">>
NL       == <<"\n">>

Section(t, c) == [type |-> t, content |-> c]

\* if current_content: sections.append((current_type, '\n'.join(current_content)))
Flush(st) ==
    IF st.current_content # <<>>
    THEN Append(st.sections, Section(st.current_type, Join(st.current_content, NL)))
    ELSE st.sections

\* a heading branch of the loop body: flush, then start a run holding the heading text
HeadingBranch(st, type, stripped_line) ==
    [sections        |-> Flush(st),
     current_type    |-> type,
     current_content |-> <<LStripChars(stripped_line, {"#", " "})>>]

\* a placeholder branch of the loop body: flush, emit the line, reset the run
PlaceholderBranch(st, type, stripped_line) ==
    [sections        |-> Append(Flush(st), Section(type, stripped_line)),
     current_type    |-> "Normal",
     current_content |-> <<>>]

\* the body of `for line in content.split('\n')`
ParseLine(st, line) ==
    LET stripped_line == Strip(line) IN
    IF StartsWith(stripped_line, H1Marker) THEN HeadingBranch(st, "Heading 1", stripped_line)
    ELSE IF StartsWith(stripped_line, H2Marker) THEN HeadingBranch(st, "Heading 2", stripped_line)
    ELSE IF StartsWith(stripped_line, H3Marker) THEN HeadingBranch(st, "Heading 3", stripped_line)
    ELSE IF Contains(stripped_line, ChartTag) THEN PlaceholderBranch(st, "Chart", stripped_line)
    ELSE IF Contains(stripped_line, TableTag) THEN PlaceholderBranch(st, "Table", stripped_line)
    ELSE IF Contains(stripped_line, ImageTag) THEN PlaceholderBranch(st, "Image", stripped_line)
    ELSE [st EXCEPT !.current_content = Append(@, stripped_line)]

RECURSIVE ParseLoop(_, _)
ParseLoop(st, lines) ==
    IF lines = <<>> THEN st ELSE ParseLoop(ParseLine(st, lines[1]), Drop(lines, 1))

parse_content(content) ==
    Flush(ParseLoop([sections |-> <<>>, current_type |-> "Normal", current_content |-> <<>>],
                    SplitOn(content, "\n")))

\* lines a completion answer is made of
LIntro    == <<"#", " ", "I", "n", "t", "r", "o">>
LHello    == <<"H", "e", "l", "l", "o", " ", "w", "o", "r", "l", "d">>
LChartBar == <<"[", "C", "H", "A", "R", "T", ":", "b", "a", "r", "]">>
LDetails  == <<"#", "#", " ", "D", "e", "t", "a", "i", "l", "s">>
LMore     == <<"M", "o", "r", "e", " ", "t", "e", "x", "t">>
LChart    == ChartTag
LTable    == TableTag
LTable24  == <<"[", "T", "A", "B", "L", "E", ":", "2", "x", "4", "]">>
LTableBoth == TableTag \o <<" ">> \o LTable24
LImage    == <<" ">> \o ImageTag
LH3       == <<"#", "#", "#", " ", "x">>
LHashHash == <<"#", " ", "#", "1">>
LEmpty    == <<>>
LIndented == <<" ", "t", " ">>
LFourHash == <<"#", "#", "#", "#", " ", "y">>

ParseLineSet ==
    {LIntro, LHello, LChartBar, LDetails, LMore, LChart, LTable, LTable24, LTableBoth,
     LImage, LH3, LHashHash, LEmpty, LIndented, LFourHash}

\* "# Intro\nHello world\n[CHART:bar]\n## Details\nMore text"
ScenarioText == Join(<<LIntro, LHello, LChartBar, LDetails, LMore>>, NL)

ParseInputs ==
    {Join(ls, NL) : ls \in SeqsUpTo(ParseLineSet, MaxLines) \ {<<>>}} \cup {ScenarioText}

ParseInit ==
    /\ p_content \in ParseInputs
    /\ p_sections = <<>>
    /\ p_pc = "input"

ParseContent ==
    /\ p_pc = "input"
    /\ p_sections' = parse_content(p_content)
    /\ p_pc' = "parsed"
    /\ UNCHANGED <<restParse, p_content>>

ParseNext == ParseContent

(***************************************************************************)
(* DocumentProcessor.save_document and TechnicalWritingAssistant's save    *)
(* callback                                                                *)
(***************************************************************************)
LastIndexOf(s, c) ==
    IF \E k \in 1..Len(s) : s[k] = c
    THEN CHOOSE k \in 1..Len(s) : s[k] = c /\ \A j \in (k + 1)..Len(s) : s[j] # c
    ELSE 0

\* os.path.splitext: the extension starts at the last dot of the last path
\* component, unless only dots precede it in that component
splitext(path) ==
    LET sepIndex == LastIndexOf(path, "/")
        dotIndex == LastIndexOf(path, ".")
    IN  IF dotIndex > sepIndex /\ \E k \in (sepIndex + 1)..(dotIndex - 1) : path[k] # "."
        THEN <<SubSeq(path, 1, dotIndex - 1), Drop(path, dotIndex - 1)>>
        ELSE <<path, <<>> >>

UpperToLower ==
    [c \in {"D", "O", "C", "X", "P", "F", "T"} |->
        CASE c = "D" -> "d" [] c = "O" -> "o" [] c = "C" -> "c" [] c = "X" -> "x"
          [] c = "P" -> "p" [] c = "F" -> "f" [] c = "T" -> "t"]

\* Python s.lower()
Lower(s) == [i \in 1..Len(s) |-> IF s[i] \in DOMAIN UpperToLower THEN UpperToLower[s[i]] ELSE s[i]]

RECURSIVE Replace(_, _, _)
\* Python s.replace(old, new), old non-empty
Replace(s, old, new) ==
    IF s = <<>> THEN <<>>
    ELSE IF StartsWith(s, old) THEN new \o Replace(Drop(s, Len(old)), old, new)
    ELSE <<s[1]>> \o Replace(Drop(s, 1), old, new)

ExtDocx == <<".", "d", "o", "c", "x">>
ExtPdf  == <<".", "p", "d", "f">>

\* _, ext = os.path.splitext(file_path); ext = ext.lower()
save_ext(path) == Lower(splitext(path)[2])

\* the mutant treats every extension other than .pdf as the native format
save_branch_default_docx(ext) == IF ext = ExtPdf THEN "pdf" ELSE "docx"

\* if ext == '.docx' ... elif ext == '.pdf' ... else
save_branch(ext) ==
    IF ext = ExtDocx THEN "docx" ELSE IF ext = ExtPdf THEN "pdf" ELSE "unsupported"

PathStems ==
    {<<"a">>, <<"d", "/", "a">>, <<"a", ".", "b", "/", "c">>, <<".", "h">>,
     <<"a", ".", "p", "d", "f">>, <<>>}
PathExts ==
    {ExtDocx, <<".", "D", "O", "C", "X">>, ExtPdf, <<".", "P", "D", "F">>, <<".", "P", "d", "f">>,
     <<".", "t", "x", "t">>, <<".", "d", "o", "c">>, <<".">>, <<>>}
SavePaths == {st \o ex : st \in PathStems, ex \in PathExts}

SaveInit ==
    /\ file_path \in SavePaths
    /\ doc_given \in BOOLEAN
    /\ svpc = "callback"
    /\ fs = {}
    /\ converted = {}
    /\ sv_raised = "none"
    /\ dialogs = <<>>

\* TechnicalWritingAssistant.save_document: if not doc: display_message(...); return
SaveCallbackNoDoc ==
    /\ svpc = "callback"
    /\ ~doc_given
    /\ dialogs' = Append(dialogs, "No document to save")
    /\ svpc' = "done"
    /\ UNCHANGED <<restSave, file_path, doc_given, fs, converted, sv_raised>>

\* TechnicalWritingAssistant.save_document: self.processor.save_document(doc, file_path)
SaveCallbackCall ==
    /\ svpc = "callback"
    /\ doc_given
    /\ svpc' = "processor"
    /\ UNCHANGED <<restSave, file_path, doc_given, fs, converted, sv_raised, dialogs>>

\* the .docx branch: doc.save(file_path) writes the file or raises
SaveDocx(ok) ==
    /\ svpc = "processor"
    /\ save_branch(save_ext(file_path)) = "docx"
    /\ IF ok
       THEN fs' = fs \cup {file_path} /\ svpc' = "proc_returned" /\ sv_raised' = sv_raised
       ELSE fs' = fs /\ svpc' = "proc_raised" /\ sv_raised' = "OSError"
    /\ UNCHANGED <<restSave, file_path, doc_given, converted, dialogs>>

\* the .pdf branch, first half: doc.save(file_path.replace('.pdf', '.docx'))
SavePdfWrite(ok) ==
    /\ svpc = "processor"
    /\ save_branch(save_ext(file_path)) = "pdf"
    /\ IF ok
       THEN /\ fs' = fs \cup {Replace(file_path, ExtPdf, ExtDocx)}
            /\ svpc' = "convert"
            /\ sv_raised' = sv_raised
       ELSE fs' = fs /\ svpc' = "proc_raised" /\ sv_raised' = "OSError"
    /\ UNCHANGED <<restSave, file_path, doc_given, converted, dialogs>>

\* the .pdf branch, second half: convert_docx_to_pdf(docx_path, file_path)
SavePdfConvert(ok) ==
    /\ svpc = "convert"
    /\ converted' = converted \cup {<<Replace(file_path, ExtPdf, ExtDocx), file_path>>}
    /\ IF ok
       THEN fs' = fs \cup {file_path} /\ svpc' = "proc_returned" /\ sv_raised' = sv_raised
       ELSE fs' = fs /\ svpc' = "proc_raised" /\ sv_raised' = "ConvertError"
    /\ UNCHANGED <<restSave, file_path, doc_given, dialogs>>

\* the else branch: raise ValueError(f"Unsupported file extension: {ext}")
SaveUnsupported ==
    /\ svpc = "processor"
    /\ save_branch(save_ext(file_path)) = "unsupported"
    /\ svpc' = "proc_raised"
    /\ sv_raised' = "ValueError"
    /\ UNCHANGED <<restSave, file_path, doc_given, fs, converted, dialogs>>

\* TechnicalWritingAssistant.save_document: the success dialog
SaveCallbackSaved ==
    /\ svpc = "proc_returned"
    /\ dialogs' = Append(dialogs, "Document saved successfully")
    /\ svpc' = "done"
    /\ UNCHANGED <<restSave, file_path, doc_given, fs, converted, sv_raised>>

\* TechnicalWritingAssistant.save_document: except Exception: the error dialog
SaveCallbackFailed ==
    /\ svpc = "proc_raised"
    /\ dialogs' = Append(dialogs, "Error saving document")
    /\ svpc' = "done"
    /\ UNCHANGED <<restSave, file_path, doc_given, fs, converted, sv_raised>>

SaveNext ==
    \/ SaveCallbackNoDoc
    \/ SaveCallbackCall
    \/ \E ok \in BOOLEAN : SaveDocx(ok)
    \/ \E ok \in BOOLEAN : SavePdfWrite(ok)
    \/ \E ok \in BOOLEAN : SavePdfConvert(ok)
    \/ SaveUnsupported
    \/ SaveCallbackSaved
    \/ SaveCallbackFailed

(***************************************************************************)
(* DocumentProcessor: placeholder tags                                     *)
(***************************************************************************)
Digits == {"0", "1", "2", "3", "4", "5", "6", "7", "8", "9"}
DigitVal ==
    [c \in Digits |->
        CASE c = "0" -> 0 [] c = "1" -> 1 [] c = "2" -> 2 [] c = "3" -> 3 [] c = "4" -> 4
          [] c = "5" -> 5 [] c = "6" -> 6 [] c = "7" -> 7 [] c = "8" -> 8 [] c = "9" -> 9]

\* the characters \w matches among those the model's texts are made of
WordChars ==
    Digits \cup {"_"} \cup
    {"a", "b", "c", "d", "e", "f", "g", "h", "i", "j", "k", "l", "m", "n", "o", "p", "q", "r",
     "s", "t", "u", "v", "w", "x", "y", "z"} \cup
    {"A", "B", "C", "D", "E", "F", "G", "H", "I", "J", "K", "L", "M", "N", "O", "P", "Q", "R",
     "S", "T", "U", "V", "W", "X", "Y", "Z"}

RECURSIVE RunLen(_, _, _)
\* length of the longest run of characters of cs that starts at position i of s
RunLen(s, i, cs) == IF i <= Len(s) /\ s[i] \in cs THEN 1 + RunLen(s, i + 1, cs) ELSE 0

RECURSIVE ParseInt(_)
\* Python int() of a string of digits
ParseInt(ds) ==
    IF ds = <<>> THEN 0 ELSE 10 * ParseInt(SubSeq(ds, 1, Len(ds) - 1)) + DigitVal[ds[Len(ds)]]

\* s[i:] starts with `lit`
LitAt(s, i, lit) == i + Len(lit) - 1 <= Len(s) /\ SubSeq(s, i, i + Len(lit) - 1) = lit

TableOpen == <<"[", "T", "A", "B", "L", "E", ":">>
ChartOpen == <<"[", "C", "H", "A", "R", "T", ":">>
ImageOpen == <<"[", "I", "M", "A", "G", "E", ":">>

\* \[TABLE:(\d+)x(\d+)\] matches at position i
TableSpecAt(s, i) ==
    /\ LitAt(s, i, TableOpen)
    /\ LET r0 == i + Len(TableOpen)
           rn == RunLen(s, r0, Digits)
           c0 == r0 + rn + 1
           cn == RunLen(s, c0, Digits)
       IN  /\ rn >= 1
           /\ LitAt(s, r0 + rn, <<"x">>)
           /\ cn >= 1
           /\ LitAt(s, c0 + cn, <<"]">>)

\* re.search(r'\[TABLE:(\d+)x(\d+)\]', content); rows, cols = (3, 3) if not table_size
\* else map(int, table_size.groups())
table_size(content) ==
    IF \E i \in 1..Len(content) : TableSpecAt(content, i)
    THEN LET i  == CHOOSE k \in 1..Len(content) :
                       TableSpecAt(content, k) /\ \A j \in 1..(k - 1) : ~TableSpecAt(content, j)
             r0 == i + Len(TableOpen)
             rn == RunLen(content, r0, Digits)
             c0 == r0 + rn + 1
             cn == RunLen(content, c0, Digits)
         IN  <<ParseInt(SubSeq(content, r0, r0 + rn - 1)),
               ParseInt(SubSeq(content, c0, c0 + cn - 1))>>
    ELSE <<3, 3>>

\* \[CHART:(\w+)\] or \[IMAGE:(\w+)\] matches at position i
SubTypeAt(s, i, open) ==
    /\ LitAt(s, i, open)
    /\ LET w0 == i + Len(open)
           wn == RunLen(s, w0, WordChars)
       IN  wn >= 1 /\ LitAt(s, w0 + wn, <<"]">>)

Generic == <<"g", "e", "n", "e", "r", "i", "c">>

\* re.search(...).group(1) if the tag carries a sub-type, else 'generic'
sub_type(content, open) ==
    IF \E i \in 1..Len(content) : SubTypeAt(content, i, open)
    THEN LET i  == CHOOSE k \in 1..Len(content) :
                       SubTypeAt(content, k, open) /\ \A j \in 1..(k - 1) : ~SubTypeAt(content, j, open)
             w0 == i + Len(open)
         IN  SubSeq(content, w0, w0 + RunLen(content, w0, WordChars) - 1)
    ELSE Generic

(***************************************************************************)
(* DocumentProcessor.format_document, add_content and the pool workers     *)
(***************************************************************************)
max_workers == 4

\* body elements of the docx document
Para(style, label, text) ==
    [kind |-> "paragraph", style |-> style, label |-> label, text |-> text, cells |-> <<>>]
PageBreak ==
    [kind |-> "page_break", style |-> "Normal", label |-> "", text |-> <<>>, cells |-> <<>>]
Picture(label, text) ==
    [kind |-> "picture", style |-> "", label |-> label, text |-> text, cells |-> <<>>]
\* doc.add_table(rows, cols) with cell.text = "Data" in every cell of every row
DataTable(rows, cols) ==
    [kind |-> "table", style |-> "", label |-> "", text |-> <<>>,
     cells |-> [r \in 1..rows |-> [c \in 1..cols |-> "Data"]]]
FieldPara(code) ==
    [kind |-> "field", style |-> "Normal", label |-> code, text |-> <<>>, cells |-> <<>>]

\* add_title_page with metadata = None
TitleBlock ==
    <<Para("Title", "Generated Technical Document", <<>>),
      Para("Subtitle", "Prepared by: Technical Writing Assistant", <<>>),
      Para("Subtitle", "Date: today", <<>>),
      PageBreak>>

\* add_table_of_contents
TocPlaceholder ==
    <<Para("Heading 1", "Table of Contents", <<>>), Para("Normal", "", <<>>), PageBreak>>

IsHeading(type) == type \in {"Heading 1", "Heading 2", "Heading 3"}
IsPlaceholder(type) == type \in {"Chart", "Table", "Image"}
IsPictureKind(type) == type \in {"Chart", "Image"}

\* the label paragraph of add_chart_placeholder / add_table_placeholder / add_image_placeholder
PlaceholderLabel(type) ==
    Para("Normal",
         CASE type = "Chart" -> "Chart Placeholder"
           [] type = "Table" -> "Table Placeholder"
           [] type = "Image" -> "Image Placeholder",
         <<>>)

\* the stand-in picture of add_placeholder_image, labelled filename.split('.')[0]
PlaceholderPicture(type, content) ==
    IF type = "Chart"
    THEN Picture("_chart", sub_type(content, ChartOpen))
    ELSE Picture("_image", sub_type(content, ImageOpen))

Running == {i \in 1..Len(d_task) : d_task[i] \in {"run", "label"}}
Finished(i) == d_task[i] \in {"done", "failed"}

\* the mutant leaves the pool without joining its workers
executor_exit_no_wait == TRUE

\* ThreadPoolExecutor.__exit__: shutdown(wait=True) returns once every submitted task ended
executor_exit_ready == \A i \in 1..Len(d_task) : Finished(i)

DocLineSet == {LIntro, LHello, LChart, LImage, LTable, LTable24, LTableBoth}

\* a response of more sections than the pool has workers
PoolFillText == Join(<<LH3, LH3, LH3, LH3, LH3>>, NL)

DocInputs == {Join(ls, NL) : ls \in SeqsUpTo(DocLineSet, MaxDocLines)} \cup {PoolFillText}

DocInit ==
    /\ d_content \in DocInputs
    /\ d_sections = <<>>
    /\ d_body = <<>>
    /\ d_footer = <<>>
    /\ fpc = "title"
    /\ d_submitted = 0
    /\ d_task = <<>>
    /\ d_wait = 1
    /\ d_exc = "none"
    /\ d_failed = {}

\* format_document: doc = Document(); set_document_styles; add_title_page(doc, metadata)
AddTitlePage ==
    /\ fpc = "title"
    /\ d_body' = d_body \o TitleBlock
    /\ fpc' = "toc"
    /\ UNCHANGED <<restDoc, d_content, d_sections, d_footer, d_submitted, d_task, d_wait, d_exc, d_failed>>

\* format_document: add_table_of_contents(doc)
AddTableOfContents ==
    /\ fpc = "toc"
    /\ d_body' = d_body \o TocPlaceholder
    /\ fpc' = "content"
    /\ UNCHANGED <<restDoc, d_content, d_sections, d_footer, d_submitted, d_task, d_wait, d_exc, d_failed>>

\* add_content: if not content: raise ValueError("Content is empty")
AddContentEmpty ==
    /\ fpc = "content"
    /\ d_content = <<>>
    /\ d_exc' = "ValueError"
    /\ fpc' = "raised"
    /\ UNCHANGED <<restDoc, d_content, d_sections, d_body, d_footer, d_submitted, d_task, d_wait, d_failed>>

\* add_content: sections = self.parse_content(content); the pool is entered
AddContentParse ==
    /\ fpc = "content"
    /\ d_content # <<>>
    /\ d_sections' = parse_content(d_content)
    /\ d_task' = [i \in 1..Len(parse_content(d_content)) |-> "new"]
    /\ fpc' = "pool"
    /\ UNCHANGED <<restDoc, d_content, d_body, d_footer, d_submitted, d_wait, d_exc, d_failed>>

\* add_content: futures.append(executor.submit(self.process_section, ...))
Submit ==
    /\ fpc = "pool"
    /\ d_submitted < Len(d_sections)
    /\ d_task' = [d_task EXCEPT ![d_submitted + 1] = "queued"]
    /\ d_submitted' = d_submitted + 1
    /\ UNCHANGED <<restDoc, d_content, d_sections, d_body, d_footer, fpc, d_wait, d_exc, d_failed>>

\* a pool worker takes the oldest queued task; at most max_workers tasks run at once
TaskStart(i) ==
    /\ d_task[i] = "queued"
    /\ \A j \in 1..(i - 1) : d_task[j] # "queued"
    /\ Cardinality(Running) < max_workers
    /\ d_task' = [d_task EXCEPT ![i] = "run"]
    /\ UNCHANGED <<restDoc, d_content, d_sections, d_body, d_footer, fpc, d_submitted, d_wait, d_exc, d_failed>>

\* process_section, heading and plain branches: doc.add_paragraph(section_content, style=...)
RenderParagraph(i, ok) ==
    /\ d_task[i] = "run"
    /\ ~IsPlaceholder(d_sections[i].type)
    /\ IF ok
       THEN /\ d_body' = Append(d_body,
                                Para(IF IsHeading(d_sections[i].type) THEN d_sections[i].type
                                     ELSE "Normal", "", d_sections[i].content))
            /\ d_task' = [d_task EXCEPT ![i] = "done"]
            /\ d_failed' = d_failed
       ELSE /\ d_body' = d_body
            /\ d_task' = [d_task EXCEPT ![i] = "failed"]
            /\ d_failed' = d_failed \cup {i}
    /\ UNCHANGED <<restDoc, d_content, d_sections, d_footer, fpc, d_submitted, d_wait, d_exc>>

\* add_*_placeholder, first statement: doc.add_paragraph("... Placeholder", style='Normal')
RenderLabel(i, ok) ==
    /\ d_task[i] = "run"
    /\ IsPlaceholder(d_sections[i].type)
    /\ IF ok
       THEN /\ d_body' = Append(d_body, PlaceholderLabel(d_sections[i].type))
            /\ d_task' = [d_task EXCEPT ![i] = "label"]
            /\ d_failed' = d_failed
       ELSE /\ d_body' = d_body
            /\ d_task' = [d_task EXCEPT ![i] = "failed"]
            /\ d_failed' = d_failed \cup {i}
    /\ UNCHANGED <<restDoc, d_content, d_sections, d_footer, fpc, d_submitted, d_wait, d_exc>>

\* add_placeholder_image: the picture is drawn and added; `except Exception` logs the
\* failure and returns normally
RenderPicture(i, ok) ==
    /\ d_task[i] = "label"
    /\ IsPictureKind(d_sections[i].type)
    /\ IF ok
       THEN /\ d_body' = Append(d_body,
                                PlaceholderPicture(d_sections[i].type, d_sections[i].content))
            /\ d_failed' = d_failed
       ELSE /\ d_body' = d_body
            /\ d_failed' = d_failed \cup {i}
    /\ d_task' = [d_task EXCEPT ![i] = "done"]
    /\ UNCHANGED <<restDoc, d_content, d_sections, d_footer, fpc, d_submitted, d_wait, d_exc>>

\* add_table_placeholder: doc.add_table(rows, cols) and the filling of its cells
RenderTable(i, ok) ==
    /\ d_task[i] = "label"
    /\ d_sections[i].type = "Table"
    /\ IF ok
       THEN /\ d_body' = Append(d_body, DataTable(table_size(d_sections[i].content)[1],
                                                  table_size(d_sections[i].content)[2]))
            /\ d_task' = [d_task EXCEPT ![i] = "done"]
            /\ d_failed' = d_failed
       ELSE /\ d_body' = d_body
            /\ d_task' = [d_task EXCEPT ![i] = "failed"]
            /\ d_failed' = d_failed \cup {i}
    /\ UNCHANGED <<restDoc, d_content, d_sections, d_footer, fpc, d_submitted, d_wait, d_exc>>

\* add_content: future.result() of a task that ended normally
FutureResult ==
    /\ fpc = "pool"
    /\ d_submitted = Len(d_sections)
    /\ d_wait <= Len(d_sections)
    /\ d_task[d_wait] = "done"
    /\ d_wait' = d_wait + 1
    /\ UNCHANGED <<restDoc, d_content, d_sections, d_body, d_footer, fpc, d_submitted, d_task, d_exc, d_failed>>

\* add_content: future.result() re-raises the exception of a failed task
FutureRaises ==
    /\ fpc = "pool"
    /\ d_submitted = Len(d_sections)
    /\ d_wait <= Len(d_sections)
    /\ d_task[d_wait] = "failed"
    /\ d_exc' = "RenderError"
    /\ fpc' = "exit"
    /\ UNCHANGED <<restDoc, d_content, d_sections, d_body, d_footer, d_submitted, d_task, d_wait, d_failed>>

\* add_content: the loop over the futures ends
FuturesDone ==
    /\ fpc = "pool"
    /\ d_submitted = Len(d_sections)
    /\ d_wait > Len(d_sections)
    /\ fpc' = "exit"
    /\ UNCHANGED <<restDoc, d_content, d_sections, d_body, d_footer, d_submitted, d_task, d_wait, d_exc, d_failed>>

\* the `with ThreadPoolExecutor` block is left: add_content returns, or raises into
\* format_document, whose `except` logs and re-raises
ExecutorExit ==
    /\ fpc = "exit"
    /\ executor_exit_ready
    /\ fpc' = IF d_exc = "none" THEN "page_number" ELSE "raised"
    /\ UNCHANGED <<restDoc, d_content, d_sections, d_body, d_footer, d_submitted, d_task, d_wait, d_exc, d_failed>>

\* format_document: add_page_number(doc.sections[0])
AddPageNumber ==
    /\ fpc = "page_number"
    /\ d_footer' = <<"Page ", "PAGE", " of ", "NUMPAGES">>
    /\ fpc' = "toc_field"
    /\ UNCHANGED <<restDoc, d_content, d_sections, d_body, d_submitted, d_task, d_wait, d_exc, d_failed>>

\* format_document: update_table_of_contents(doc); return doc
UpdateTableOfContents ==
    /\ fpc = "toc_field"
    /\ d_body' = Append(d_body, FieldPara("TOC"))
    /\ fpc' = "returned"
    /\ UNCHANGED <<restDoc, d_content, d_sections, d_footer, d_submitted, d_task, d_wait, d_exc, d_failed>>

DocNext ==
    \/ AddTitlePage
    \/ AddTableOfContents
    \/ AddContentEmpty
    \/ AddContentParse
    \/ Submit
    \/ \E i \in 1..Len(d_task) : TaskStart(i)
    \/ \E i \in 1..Len(d_task), ok \in BOOLEAN : RenderParagraph(i, ok)
    \/ \E i \in 1..Len(d_task), ok \in BOOLEAN : RenderLabel(i, ok)
    \/ \E i \in 1..Len(d_task), ok \in BOOLEAN : RenderPicture(i, ok)
    \/ \E i \in 1..Len(d_task), ok \in BOOLEAN : RenderTable(i, ok)
    \/ FutureResult
    \/ FutureRaises
    \/ FuturesDone
    \/ ExecutorExit
    \/ AddPageNumber
    \/ UpdateTableOfContents

(***************************************************************************)
(* AIPrompt.fetch_serper_results and generate_prompt                       *)
(***************************************************************************)
\* organic entries of a search answer: two well-formed ones, one without a snippet
Entry1   == [keys |-> {"title", "snippet"}, title |-> <<"t", "1">>, snippet |-> <<"s", "1">>]
Entry2   == [keys |-> {"title", "snippet"}, title |-> <<"t", "2">>, snippet |-> <<"s", "2">>]
EntryBad == [keys |-> {"title"}, title |-> <<"t", "3">>, snippet |-> <<>>]

EmptyDict == [has_organic |-> FALSE, organic |-> <<>>]

\* what requests.post / raise_for_status / response.json() can produce
SearchAnswers ==
    {[kind |-> k, body |-> EmptyDict] : k \in {"network_error", "http_error", "json"}}
    \cup {[kind |-> "json", body |-> [has_organic |-> TRUE, organic |-> o]] :
              o \in SeqsUpTo({Entry1, Entry2, EntryBad}, MaxResults)}

\* fetch_serper_results: the decoded body, or {} after a requests.RequestException
fetch_serper_results(answer) == IF answer.kind = "json" THEN answer.body ELSE EmptyDict

\* the mutant uses every organic result
top_results_all(organic) == organic

\* search_results['organic'][:3]
top_results(organic) == Take(organic, 3)

\* the results the loop of generate_prompt visits
visited_results(search_results) ==
    IF search_results.has_organic THEN top_results(search_results.organic) ELSE <<>>

RECURSIVE relevant_info(_)
\* relevant_info += f"\n- {result['title']}: {result['snippet']}"
relevant_info(results) ==
    IF results = <<>> THEN <<>>
    ELSE <<"\n", "-", " ">> \o results[1].title \o <<":", " ">> \o results[1].snippet
         \o relevant_info(Drop(results, 1))

AdditionalOpen == <<"\n", "\n", "A", "d", "d", "i", "t", "i", "o", "n", "a", "l", " ">>

RECURSIVE additional_text(_)
\* prompt += f"\n\nAdditional {key}: {self.sanitize_input(str(value))}", in insertion order
additional_text(params) ==
    IF params = <<>> THEN <<>>
    ELSE AdditionalOpen \o params[1][1] \o <<":", " ">> \o sanitize_input(params[1][2], 3000)
         \o additional_text(Drop(params, 1))

NoPrompt ==
    [content |-> <<>>, approach |-> <<>>, purpose |-> <<>>, category |-> <<>>,
     relevant_info |-> <<>>, additional |-> <<>>]

\* generate_prompt: the template with its holes filled, or the exception of the try block
generate_prompt(content, approach, purpose, category, additional_params, answer) ==
    LET results == visited_results(fetch_serper_results(answer)) IN
    IF \E k \in 1..Len(results) : {"title", "snippet"} \ results[k].keys # {}
    THEN [status |-> "KeyError", prompt |-> NoPrompt]
    ELSE [status |-> "returned",
          prompt |-> [content       |-> sanitize_input(content, 3000),
                      approach      |-> sanitize_input(approach, 3000),
                      purpose       |-> sanitize_input(purpose, 3000),
                      category      |-> sanitize_input(category, 3000),
                      relevant_info |-> relevant_info(results),
                      additional    |-> additional_text(additional_params)]]

\* search_query = f"{sanitized_category} {sanitized_purpose}"
search_query(purpose, category) ==
    sanitize_input(category, 3000) \o <<" ">> \o sanitize_input(purpose, 3000)

Technical     == <<"T", "e", "c", "h", "n", "i", "c", "a", "l">>
Instructional == <<"I", "n", "s", "t", "r", "u", "c", "t", "i", "o", "n", "a", "l">>
UserManual    == <<"U", "s", "e", "r", " ", "M", "a", "n", "u", "a", "l">>

PromptContents == {<<" ", "a", " ", " ", "b", "\n">>, <<"c">>}
ParamA == <<<<"k">>, <<" ", "v", " ">>>>
ParamB == <<<<"j">>, <<"w">>>>
PromptParams == {<<>>, <<ParamA, ParamB>>}

PromptInit ==
    /\ g_content \in PromptContents
    /\ g_params \in PromptParams
    /\ g_resp = <<>>
    /\ g_out = <<>>
    /\ g_queries = <<>>

\* one call of generate_prompt with the form's values; the search service answers
\* `answer`.  Two calls with the same arguments are made.
GeneratePrompt(answer) ==
    /\ Len(g_out) < 2
    /\ g_queries' = Append(g_queries, search_query(Instructional, UserManual))
    /\ g_resp' = Append(g_resp, answer)
    /\ g_out' = Append(g_out, generate_prompt(g_content, Technical, Instructional, UserManual,
                                              g_params, answer))
    /\ UNCHANGED <<restPrompt, g_content, g_params>>

PromptNext == \E answer \in SearchAnswers : GeneratePrompt(answer)

(***************************************************************************)
(* TechnicalWritingAssistant: start-up, the form's handlers (UserInterface) *)
(* and the background thread of each generate action                       *)
(***************************************************************************)
FormMinLength     == 10
PipelineMinLength == 50

\* os.getenv(var) is falsy: the variable is unset or empty
Missing(value) == value # "set"

\* load_environment: required_vars = ['GROQ_API_KEY']
load_environment_missing == Missing(env_groq)

\* AIPrompt.__init__: both keys are required
ai_prompt_missing == Missing(env_groq) \/ Missing(env_serper)

\* UserInterface.generate_document: len(sanitized_content) < 10
rejected_by_form(content) == Len(Strip(content)) < FormMinLength

\* the mutant applies the form's floor in the orchestration layer
rejected_by_pipeline_form_floor(content) == Len(Strip(Strip(content))) < FormMinLength

\* TechnicalWritingAssistant.generate_document: len(sanitized_content) < 50, on the
\* text the form already stripped
rejected_by_pipeline(content) == Len(Strip(Strip(content))) < PipelineMinLength

Letters(n) == [i \in 1..n |-> "a"]

\* what content_text.get("1.0", tk.END) can hold: the typed text and a final newline
FormContents ==
    {<<" ", " ">> \o Letters(9) \o <<"\n">>, Letters(10) \o <<"\n">>,
     Letters(49) \o <<"\n">>, Letters(50) \o <<"\n">>}

Dialog(message, thread) == <<message, thread>>

NewEntry ==
    [kind |-> "new", content |-> <<>>, pc |-> "done", result |-> 0, searched |-> FALSE,
     completed |-> FALSE, built |-> FALSE, ui_ops |-> {}]

AppInit ==
    /\ env_groq \in {"unset", "empty", "set"}
    /\ env_serper \in {"unset", "empty", "set"}
    /\ apc = "load_environment"
    /\ ui_built = FALSE
    /\ startup_error = "none"
    /\ generated_doc = 0
    /\ gens = <<>>
    /\ last_view = "none"

\* TechnicalWritingAssistant.__init__: self.load_environment()
LoadEnvironment ==
    /\ apc = "load_environment"
    /\ IF load_environment_missing
       THEN apc' = "crashed" /\ startup_error' = "EnvironmentError"
       ELSE apc' = "ui" /\ startup_error' = startup_error
    /\ UNCHANGED <<restApp, env_groq, env_serper, ui_built, generated_doc, gens, last_view>>

\* TechnicalWritingAssistant.__init__: self.ui = UserInterface(), the main window and
\* its widgets; self.processor = DocumentProcessor()
ConstructUI ==
    /\ apc = "ui"
    /\ ui_built' = TRUE
    /\ generated_doc' = 0
    /\ apc' = "ai_prompt"
    /\ UNCHANGED <<restApp, env_groq, env_serper, startup_error, gens, last_view>>

\* TechnicalWritingAssistant.__init__: self.ai_prompt = AIPrompt(); then the callbacks
\* are set and the main loop is entered
ConstructAIPrompt ==
    /\ apc = "ai_prompt"
    /\ IF ai_prompt_missing
       THEN apc' = "crashed" /\ startup_error' = "ValueError"
       ELSE apc' = "mainloop" /\ startup_error' = startup_error
    /\ UNCHANGED <<restApp, env_groq, env_serper, ui_built, generated_doc, gens, last_view>>

\* UserInterface.generate_document on the interface thread: the form's length check,
\* then the progress bar is started and the background thread is spawned
ClickGenerate(content) ==
    /\ apc = "mainloop"
    /\ Len(gens) < MaxActions
    /\ gens' = Append(gens,
         IF rejected_by_form(content)
         THEN [kind |-> "generate", content |-> content, pc |-> "rejected", result |-> 0,
               searched |-> FALSE, completed |-> FALSE, built |-> FALSE,
               ui_ops |-> {Dialog("Please provide more content", "ui")}]
         ELSE [kind |-> "generate", content |-> content, pc |-> "spawned", result |-> 0,
               searched |-> FALSE, completed |-> FALSE, built |-> FALSE,
               ui_ops |-> {Dialog("progress_bar.start", "ui")}])
    /\ UNCHANGED <<restApp, env_groq, env_serper, apc, ui_built, startup_error, generated_doc,
                   last_view>>

\* UserInterface.new_document
ClickNew ==
    /\ apc = "mainloop"
    /\ Len(gens) < MaxActions
    /\ generated_doc' = 0
    /\ gens' = Append(gens, NewEntry)
    /\ UNCHANGED <<restApp, env_groq, env_serper, apc, ui_built, startup_error, last_view>>

\* UserInterface.preview_document
ClickPreview ==
    /\ apc = "mainloop"
    /\ last_view' = IF generated_doc = 0 THEN "generate a document first" ELSE "preview"
    /\ UNCHANGED <<restApp, env_groq, env_serper, apc, ui_built, startup_error, generated_doc,
                   gens>>

\* UserInterface.save_document / download_document, up to the file dialog
ClickSave ==
    /\ apc = "mainloop"
    /\ last_view' = IF generated_doc = 0 THEN "generate a document first" ELSE "save dialog"
    /\ UNCHANGED <<restApp, env_groq, env_serper, apc, ui_built, startup_error, generated_doc,
                   gens>>

\* the thread's generate_callback returns None after self.ui.display_message(message),
\* which the thread itself calls
ReturnNoneWithDialog(g, message) ==
    [g EXCEPT !.pc = "assign", !.result = 0,
              !.ui_ops = @ \cup {Dialog(message, "worker")}]

\* TechnicalWritingAssistant.generate_document in the background thread: the length check
GenValidate(k) ==
    /\ gens[k].pc = "spawned"
    /\ gens' = [gens EXCEPT ![k] =
                  IF rejected_by_pipeline(gens[k].content)
                  THEN ReturnNoneWithDialog(@, "Content is too short")
                  ELSE [@ EXCEPT !.pc = "prompt"]]
    /\ UNCHANGED <<restApp, env_groq, env_serper, apc, ui_built, startup_error, generated_doc,
                   last_view>>

\* ... self.ai_prompt.generate_prompt(...): the search request is sent; the prompt is
\* returned or the call raises into the handler's `except`
GenPrompt(k, ok) ==
    /\ gens[k].pc = "prompt"
    /\ gens' = [gens EXCEPT ![k] =
                  IF ok THEN [@ EXCEPT !.pc = "complete", !.searched = TRUE]
                  ELSE ReturnNoneWithDialog([@ EXCEPT !.searched = TRUE],
                                            "Error generating document")]
    /\ UNCHANGED <<restApp, env_groq, env_serper, apc, ui_built, startup_error, generated_doc,
                   last_view>>

\* ... self.ai_prompt.get_ai_response(prompt): a report, an empty answer, or an error
\* once the attempts are used up
GenComplete(k, outcome) ==
    /\ gens[k].pc = "complete"
    /\ gens' = [gens EXCEPT ![k] =
                  CASE outcome = "report" -> [@ EXCEPT !.pc = "format", !.completed = TRUE]
                    [] outcome = "empty" ->
                         ReturnNoneWithDialog([@ EXCEPT !.completed = TRUE],
                                              "Failed to generate content")
                    [] outcome = "raised" ->
                         ReturnNoneWithDialog([@ EXCEPT !.completed = TRUE],
                                              "Error generating document")]
    /\ UNCHANGED <<restApp, env_groq, env_serper, apc, ui_built, startup_error, generated_doc,
                   last_view>>

\* ... self.processor.format_document(response): the document, or an error
GenFormat(k, ok) ==
    /\ gens[k].pc = "format"
    /\ gens' = [gens EXCEPT ![k] =
                  IF ok THEN [@ EXCEPT !.pc = "assign", !.built = TRUE, !.result = k]
                  ELSE ReturnNoneWithDialog([@ EXCEPT !.built = TRUE],
                                            "Error generating document")]
    /\ UNCHANGED <<restApp, env_groq, env_serper, apc, ui_built, startup_error, generated_doc,
                   last_view>>

\* generate(): self.generated_doc = <the callback's result>;
\* self.root.after(0, self.generation_complete)
GenAssign(k) ==
    /\ gens[k].pc = "assign"
    /\ generated_doc' = gens[k].result
    /\ gens' = [gens EXCEPT ![k].pc = "after"]
    /\ UNCHANGED <<restApp, env_groq, env_serper, apc, ui_built, startup_error, last_view>>

\* UserInterface.generation_complete on the interface thread
GenerationComplete(k) ==
    /\ gens[k].pc = "after"
    /\ gens' = [gens EXCEPT ![k].pc = "done",
                            ![k].ui_ops = @ \cup
                                {Dialog("progress_bar.stop", "ui"),
                                 Dialog(IF generated_doc # 0
                                        THEN "Document generated successfully"
                                        ELSE "Failed to generate document", "ui")}]
    /\ UNCHANGED <<restApp, env_groq, env_serper, apc, ui_built, startup_error, generated_doc,
                   last_view>>

AppNext ==
    \/ LoadEnvironment
    \/ ConstructUI
    \/ ConstructAIPrompt
    \/ \E content \in FormContents : ClickGenerate(content)
    \/ ClickNew
    \/ ClickPreview
    \/ ClickSave
    \/ \E k \in 1..Len(gens) : GenValidate(k)
    \/ \E k \in 1..Len(gens), ok \in BOOLEAN : GenPrompt(k, ok)
    \/ \E k \in 1..Len(gens), outcome \in {"report", "empty", "raised"} : GenComplete(k, outcome)
    \/ \E k \in 1..Len(gens), ok \in BOOLEAN : GenFormat(k, ok)
    \/ \E k \in 1..Len(gens) : GenAssign(k)
    \/ \E k \in 1..Len(gens) : GenerationComplete(k)

(***************************************************************************)
(* Specifications: one per component, the other components at rest.        *)
(***************************************************************************)
SanIdle ==
    s_text = <<>> /\ s_max = 0 /\ s_once = <<>> /\ s_twice = <<>> /\ s_pc = "idle"
RetryIdle ==
    /\ max_retries = 0 /\ attempt = 0 /\ calls = <<>> /\ rpc = "idle"
    /\ rresult = "None" /\ raised = NoError
ParseIdle ==
    p_content = <<>> /\ p_sections = <<>> /\ p_pc = "idle"
SaveIdle ==
    /\ file_path = <<>> /\ doc_given = FALSE /\ svpc = "idle" /\ fs = {}
    /\ converted = {} /\ sv_raised = "none" /\ dialogs = <<>>
DocIdle ==
    /\ d_content = <<>> /\ d_sections = <<>> /\ d_body = <<>> /\ d_footer = <<>>
    /\ fpc = "idle" /\ d_submitted = 0 /\ d_task = <<>> /\ d_wait = 1 /\ d_exc = "none"
    /\ d_failed = {}

PromptIdle ==
    g_content = <<>> /\ g_params = <<>> /\ g_resp = <<>> /\ g_out = <<>> /\ g_queries = <<>>

AppIdle ==
    /\ env_groq = "set" /\ env_serper = "set" /\ apc = "idle" /\ ui_built = FALSE
    /\ startup_error = "none" /\ generated_doc = 0 /\ gens = <<>> /\ last_view = "none"

InitSan  == SanInit /\ RetryIdle /\ ParseIdle /\ SaveIdle /\ DocIdle /\ PromptIdle /\ AppIdle
SpecSan  == InitSan /\ [][SanNext]_vars

InitRetry == RetryInit /\ SanIdle /\ ParseIdle /\ SaveIdle /\ DocIdle /\ PromptIdle /\ AppIdle
SpecRetry == InitRetry /\ [][RetryNext]_vars

InitParse == ParseInit /\ SanIdle /\ RetryIdle /\ SaveIdle /\ DocIdle /\ PromptIdle /\ AppIdle
SpecParse == InitParse /\ [][ParseNext]_vars

InitSave == SaveInit /\ SanIdle /\ RetryIdle /\ ParseIdle /\ DocIdle /\ PromptIdle /\ AppIdle
SpecSave == InitSave /\ [][SaveNext]_vars

InitDoc == DocInit /\ SanIdle /\ RetryIdle /\ ParseIdle /\ SaveIdle /\ PromptIdle /\ AppIdle
SpecDoc == InitDoc /\ [][DocNext]_vars

InitPrompt ==
    PromptInit /\ SanIdle /\ RetryIdle /\ ParseIdle /\ SaveIdle /\ DocIdle /\ AppIdle
SpecPrompt == InitPrompt /\ [][PromptNext]_vars

InitApp ==
    AppInit /\ SanIdle /\ RetryIdle /\ ParseIdle /\ SaveIdle /\ DocIdle /\ PromptIdle
SpecApp == InitApp /\ [][AppNext]_vars

Init == InitDoc
Next == DocNext
Spec == SpecDoc

(***************************************************************************)
(* Properties of get_ai_response                                           *)
(***************************************************************************)
AllRetryable(cs) == \A k \in 1..Len(cs) : cs[k].kind \in RetryableClasses

\* C1: with N >= 1 attempts configured and every call so far raising ValueError or
\* TypeError, the loop is still running while fewer than N calls were made, never makes
\* more than N, and ends only by raising the error of the N-th call.
C1_RetryCeiling ==
    (max_retries >= 1 /\ AllRetryable(calls)) =>
        /\ Len(calls) <= max_retries
        /\ (rpc = "loop" => Len(calls) < max_retries)
        /\ (rpc # "loop" =>
               rpc = "raised" /\ Len(calls) = max_retries /\ raised = calls[max_retries])

\* three attempts configured, three retryable failures, the third one raised
C1_Witness ==
    /\ max_retries = 3 /\ Len(calls) = 3 /\ AllRetryable(calls)
    /\ rpc = "raised" /\ raised = calls[3]

\* C2: a call that raises anything but ValueError/TypeError is the last call made, and
\* its error is the one raised to the caller; on the first attempt that is one call.
C2_UnexpectedNotRetried ==
    \A k \in 1..Len(calls) :
        calls[k].kind \notin RetryableClasses \cup {"ok"} =>
            k = Len(calls) /\ rpc = "raised" /\ raised = calls[k]

\* several attempts configured, the first call raises an unexpected error: one call
C2_Witness ==
    /\ max_retries = 3 /\ Len(calls) = 1 /\ calls[1].kind \in UnexpectedClasses
    /\ rpc = "raised"

(***************************************************************************)
(* Properties of sanitize_input                                            *)
(***************************************************************************)
\* C8: sanitising an already sanitised text with the same maximum changes nothing.
C8_Idempotent == s_pc = "twice" => s_twice = s_once

(***************************************************************************)
(* Properties of parse_content                                             *)
(***************************************************************************)
RECURSIVE Flatten(_)
Flatten(seqs) == IF seqs = <<>> THEN <<>> ELSE seqs[1] \o Flatten(Drop(seqs, 1))

RECURSIVE NonEmpty(_)
NonEmpty(ls) ==
    IF ls = <<>> THEN <<>>
    ELSE (IF ls[1] = <<>> THEN <<>> ELSE <<ls[1]>>) \o NonEmpty(Drop(ls, 1))

\* a line as the claim reads it: trimmed, its heading marker (if any) removed
WithoutMarker(line) ==
    LET l == Strip(line) IN
    IF StartsWith(l, H1Marker) THEN LStripChars(Drop(l, Len(H1Marker)), Whitespace)
    ELSE IF StartsWith(l, H2Marker) THEN LStripChars(Drop(l, Len(H2Marker)), Whitespace)
    ELSE IF StartsWith(l, H3Marker) THEN LStripChars(Drop(l, Len(H3Marker)), Whitespace)
    ELSE l

InputLines(content) == SplitOn(content, "\n")
SectionLines(secs) == Flatten([i \in 1..Len(secs) |-> SplitOn(secs[i].content, "\n")])

\* C6: every input line lands in exactly one section, and the sections' texts, read in
\* order, are the input's non-empty lines without their heading markers, in order.
C6_OrderPreserving ==
    p_pc = "parsed" =>
        /\ Len(SectionLines(p_sections)) = Len(InputLines(p_content))
        /\ NonEmpty(SectionLines(p_sections))
             = NonEmpty([i \in 1..Len(InputLines(p_content)) |->
                            WithoutMarker(InputLines(p_content)[i])])

\* C7: the five lines '# Intro', 'Hello world', '[CHART:bar]', '## Details', 'More text'
\* classify as heading-1 'Intro', plain 'Hello world', chart placeholder, heading-2
\* 'Details', plain 'More text'.
C7_ScenarioSections ==
    (p_pc = "parsed" /\ p_content = ScenarioText) =>
        p_sections = <<Section("Heading 1", <<"I", "n", "t", "r", "o">>),
                       Section("Normal", LHello),
                       Section("Chart", LChartBar),
                       Section("Heading 2", <<"D", "e", "t", "a", "i", "l", "s">>),
                       Section("Normal", LMore)>>

(***************************************************************************)
(* Properties of save_document                                             *)
(***************************************************************************)
Unsupported(path) == Lower(splitext(path)[2]) \notin {ExtDocx, ExtPdf}

\* C9: for a path whose extension is neither .docx nor .pdf in any letter case,
\* save_document writes no file, never calls the converter, and ends by raising.
C9_UnsupportedRaisesUnwritten ==
    (doc_given /\ Unsupported(file_path)) =>
        /\ fs = {}
        /\ converted = {}
        /\ svpc \notin {"convert", "proc_returned"}
        /\ (svpc \in {"proc_raised", "done"} => sv_raised = "ValueError")

\* save_document raised for the path "a.txt"
C9_Witness ==
    /\ file_path = <<"a", ".", "t", "x", "t">>
    /\ svpc = "proc_raised" /\ sv_raised = "ValueError" /\ fs = {}

(***************************************************************************)
(* Properties of format_document                                           *)
(***************************************************************************)
\* C3: a document is returned only if no rendering operation of any section failed.
C3_FailurePropagates == fpc = "returned" => d_failed = {}

AddContentLeft == fpc \in {"page_number", "toc_field", "returned", "raised"}

\* C4: once add_content has returned or raised, every section was submitted and every
\* submitted task has ended, so nothing later overlaps a running task.
C4_JoinBeforeProceed ==
    AddContentLeft =>
        /\ d_submitted = Len(d_sections)
        /\ \A i \in 1..Len(d_task) : Finished(i)

\* add_content raised because of the first task while a later task ran to its end
C4_Witness ==
    /\ fpc = "raised" /\ Len(d_task) >= 2
    /\ d_task[1] = "failed" /\ d_task[2] = "done"

\* the rendering of one section, as the claim orders it
Rendering(sec) ==
    IF IsPictureKind(sec.type)
    THEN <<PlaceholderLabel(sec.type), PlaceholderPicture(sec.type, sec.content)>>
    ELSE IF sec.type = "Table"
    THEN <<PlaceholderLabel(sec.type),
           DataTable(table_size(sec.content)[1], table_size(sec.content)[2])>>
    ELSE <<Para(sec.type, "", sec.content)>>

OrderedBody(content) ==
    LET secs == parse_content(content) IN
    TitleBlock \o TocPlaceholder \o Flatten([i \in 1..Len(secs) |-> Rendering(secs[i])])

\* C5: whatever the workers' interleaving, the returned body starts with the title
\* block, the table-of-contents placeholder and the sections' renderings in
\* parse_content's order, each label directly followed by its own picture or table.
C5_BodyInOrder ==
    (fpc = "returned" /\ d_failed = {}) =>
        /\ Len(d_body) >= Len(OrderedBody(d_content))
        /\ SubSeq(d_body, 1, Len(OrderedBody(d_content))) = OrderedBody(d_content)

HasTableSpec(line) == \E i \in 1..Len(line) : TableSpecAt(line, i)
HasTable(rows, cols) == \E k \in 1..Len(d_body) : d_body[k] = DataTable(rows, cols)

\* C10: in a returned document every response line tagged [TABLE:RxC] has a table of R
\* rows and C cells per row, each holding 'Data', and every [TABLE] line a 3x3 one.
C10_TableDimensions ==
    fpc = "returned" =>
        \A n \in 1..Len(InputLines(d_content)) :
            LET line == Strip(InputLines(d_content)[n]) IN
            /\ HasTableSpec(line) => HasTable(table_size(line)[1], table_size(line)[2])
            /\ (Contains(line, TableTag) /\ ~HasTableSpec(line)) => HasTable(3, 3)

(***************************************************************************)
(* Properties of generate_prompt                                           *)
(***************************************************************************)
Usable(entry) == {"title", "snippet"} \subseteq entry.keys

\* the lookup failed: no answer, an error status, no 'organic' key, or no usable entry
LookupFailed(answer) ==
    \/ answer.kind # "json"
    \/ ~answer.body.has_organic
    \/ \A k \in 1..Len(answer.body.organic) : ~Usable(answer.body.organic[k])

\* C13: whenever the search lookup failed, generate_prompt returned a prompt whose
\* search contribution is empty.
C13_LookupFailureDegrades ==
    \A i \in 1..Len(g_out) :
        LookupFailed(g_resp[i]) =>
            g_out[i].status = "returned" /\ g_out[i].prompt.relevant_info = <<>>

\* C14 as stated: two calls with the same arguments return the same prompt, whatever
\* the search service answered in each.
C14_SamePromptAnyAnswer ==
    (Len(g_out) = 2 /\ g_out[1].status = "returned" /\ g_out[2].status = "returned") =>
        g_out[1].prompt = g_out[2].prompt

\* titles and snippets of the first three organic results of an answer
Contribution(answer) ==
    IF answer.kind = "json" /\ answer.body.has_organic
    THEN [k \in 1..(IF Len(answer.body.organic) < 3 THEN Len(answer.body.organic) ELSE 3) |->
             <<answer.body.organic[k].title, answer.body.organic[k].snippet>>]
    ELSE <<>>

\* C14 as amended: two calls with the same arguments return the same prompt whenever
\* the two search answers agree on the titles and snippets of their first three
\* organic results, a failed lookup counting as none.
C14_SamePromptSameContribution ==
    (/\ Len(g_out) = 2 /\ g_out[1].status = "returned" /\ g_out[2].status = "returned"
     /\ Contribution(g_resp[1]) = Contribution(g_resp[2])) =>
        g_out[1].prompt = g_out[2].prompt

\* two different answers of four results that agree on the first three: same prompt
C14_Witness ==
    /\ Len(g_out) = 2 /\ g_out[1].status = "returned" /\ g_out[2].status = "returned"
    /\ g_resp[1] # g_resp[2]
    /\ Len(Contribution(g_resp[1])) = 3
    /\ Contribution(g_resp[1]) = Contribution(g_resp[2])
    /\ g_params # <<>>
    /\ g_out[1].prompt = g_out[2].prompt

(***************************************************************************)
(* Start-up, the form and the generate threads                             *)
(***************************************************************************)
CredentialAbsent == Missing(env_groq) \/ Missing(env_serper)

\* C11: when GROQ_API_KEY or SERPER_API_KEY is absent, construction of
\* TechnicalWritingAssistant fails with an error raised before any UI object (the main
\* window) has been constructed.
C11_CredentialErrorBeforeUI ==
    CredentialAbsent =>
        /\ apc # "mainloop"
        /\ ~ui_built
        /\ apc = "crashed" => startup_error # "none"

Generates == {k \in 1..Len(gens) : gens[k].kind = "generate"}

\* C12: every UI operation a generate action causes (progress bar, success, validation
\* and failure dialogs) is executed on the interface thread; the background thread never
\* itself opens a dialog.
C12_UIOperationsOnInterfaceThread ==
    \A k \in Generates : \A op \in gens[k].ui_ops : op[2] = "ui"

TooShort(content) ==
    Len(Strip(content)) < FormMinLength \/ Len(Strip(content)) < PipelineMinLength

Reported(g) ==
    \E op \in g.ui_ops : op[1] \in {"Please provide more content", "Content is too short"}

\* the action has passed its length check
Checked(g) == g.pc # "spawned"

\* C15: a generate action whose stripped content is below 10 (form) or below 50
\* (orchestration) is reported by a dialog, never sends a request to the search or
\* completion service and never builds a document.
C15_TooShortStopsBeforePipeline ==
    \A k \in Generates :
        TooShort(gens[k].content) =>
            /\ ~gens[k].searched /\ ~gens[k].completed /\ ~gens[k].built
            /\ gens[k].result = 0
            /\ Checked(gens[k]) => Reported(gens[k])

\* both floors have rejected an action, and a long enough one went through the pipeline
C15_Witness ==
    /\ \E k \in Generates :
          /\ Len(Strip(gens[k].content)) < FormMinLength
          /\ Len(gens[k].content) >= FormMinLength
          /\ gens[k].pc = "rejected" /\ Reported(gens[k])
    /\ \E k \in Generates :
          /\ Len(Strip(gens[k].content)) = PipelineMinLength - 1
          /\ gens[k].pc = "done" /\ Reported(gens[k]) /\ ~gens[k].searched
    /\ apc = "mainloop"

\* no background thread still has its result to assign
Settled == \A k \in Generates : gens[k].pc \in {"rejected", "after", "done"}

\* the user actions that set the live document: New Document and the generate actions
\* that passed the form
Initiated == {k \in 1..Len(gens) : gens[k].pc # "rejected"}

LatestInitiated == CHOOSE k \in Initiated : \A j \in Initiated : j <= k

\* C16: the live document reflects the most recently initiated user action: after two
\* overlapping generate actions finish it holds the later-started one's result, and
\* after New Document it stays empty until a generate action started afterwards
\* completes.
C16_LiveDocumentIsLatestAction ==
    /\ (Settled /\ Initiated # {}) => generated_doc = gens[LatestInitiated].result
    /\ \A k \in 1..Len(gens) :
          gens[k].kind = "new" =>
              \/ generated_doc = 0
              \/ \E j \in Generates : j > k /\ gens[j].result = generated_doc

\* C17: a generate action that is rejected by validation or fails in the pipeline leaves
\* a previously generated document unchanged, so Preview and Save still operate on it.
C17_FailedGenerateKeepsDocument ==
    [][\A k \in 1..Len(gens') :
          /\ (k > Len(gens) /\ gens'[k].pc = "rejected") => generated_doc' = generated_doc
          /\ (k <= Len(gens) /\ gens[k].kind = "generate" /\ gens[k].result = 0
                /\ gens[k].pc = "assign" /\ gens'[k].pc = "after")
             => generated_doc' = generated_doc]_vars

====
